---- MODULE Spec2Model ----
(***************************************************************************)
(* RtEpochs (mne_realtime/epochs.py): real-time epoch extraction.          *)
(*                                                                         *)
(* A raw buffer is a sequence of samples; a sample is a record             *)
(* [d |-> value of the data channel, s |-> value of the stim channel],     *)
(* taken after calibration.  The acquisition source delivers a ramp on the *)
(* data channel (the value of sample p of the stream is p), so every       *)
(* sample is distinguishable and an epoch shows which samples it holds.    *)
(***************************************************************************)
EXTENDS Integers, Sequences, FiniteSets, TLC

\* ---------------------------------------------------------------- bounds
MaxBuf == 4        \* widest buffer the source delivers
MaxSent == 6       \* samples the source delivers in all
MaxBufNext == 2    \* the same two bounds where a consumer calls next()
MaxSentNext == 5
MaxTime == 3       \* the clock stops advancing here
MaxBufDecim == 4   \* the buffer bounds where decimate() is called
MaxSentDecim == 7
MaxDecim == 4      \* decimate() is not called beyond this total factor

\* ---------------------------------------------------------------- inputs
StimVals == {0, 1, 2}             \* values of the stim channel
\* (tmin_samp, n_samp) of the instance
Configs == {<<0 - 2, 3>>, <<0 - 1, 3>>, <<0, 2>>}
StimValsNext == {0, 1}            \* the same two where a consumer calls next()
ConfigsNext == {<<0 - 1, 2>>}
ConfigsDecim == {<<0, 5>>}        \* the same where decimate() is called
Decims == {1, 2}                  \* __init__(..., decim=...)
DecimFactors == {1, 2, 4}         \* decimate(decim)

\* ------------------------------------------------------- program constants
isi_max == 2       \* __init__(..., isi_max=2.)
min_samples == 0   \* min_duration=0 times sfreq
Inf == 1000000     \* np.inf: larger than any clock value plus isi_max
EventIds == {1}    \* self.event_id.values()

VARIABLES
    \* configuration, fixed at construction
    tmin_samp, n_samp,
    \* self._decim, and the start of self._decim_slice (its step is _decim)
    decim, decim_start,
    \* producer state of the instance
    last_buffer, first_samp, event_backlog,
    epoch_queue, events, selection, drop_log, n_good, n_bad,
    \* the queued epochs as they were cut from the buffers, before line 499
    raw_queue,
    \* session and consumer state of the instance
    started, last_time, current,
    \* the client: net number of registrations of the callback, receive thread
    registered, receiving,
    \* the environment: samples delivered so far (stim values), the clock
    stream, now,
    \* what the last callback did
    cb,
    \* what the consumer's last step returned or raised; whether next() has
    \* ever raised StopIteration
    res, ended,
    \* the two threads when they interleave: the callback's position, the
    \* epochs it has still to append and the state it will set at its end;
    \* the consumer's position and locals
    ppc, todo, pend, cpc, loc

window == <<tmin_samp, n_samp>>
decimation == <<decim, decim_start>>
config == <<window, decimation>>
buffers == <<last_buffer, first_samp, event_backlog, stream, cb>>
queues == <<epoch_queue, events, selection, drop_log, n_good, n_bad, raw_queue>>
session == <<started, registered, receiving>>
consumer == <<last_time, current, res, ended>>
threads == <<ppc, todo, pend, cpc, loc>>

vars == <<config, buffers, queues, session, consumer, threads, now>>

\* ------------------------------------------------------- python slicing
Min(a, b) == IF a < b THEN a ELSE b
Max(a, b) == IF a > b THEN a ELSE b

\* seq[lo:hi] for 0 <= lo, 0 <= hi (numpy clips at the length)
PySlice(seq, lo, hi) == SubSeq(seq, lo + 1, Min(hi, Len(seq)))

\* seq[:k]; a negative k counts from the end
PyHead(seq, k) ==
    IF k >= 0 THEN SubSeq(seq, 1, Min(k, Len(seq)))
    ELSE SubSeq(seq, 1, Max(Len(seq) + k, 0))

\* seq[-n:]; -0 is 0, so n = 0 gives the whole sequence
PyTail(seq, n) ==
    IF n <= 0 THEN seq
    ELSE SubSeq(seq, Max(Len(seq) - n, 0) + 1, Len(seq))

\* seq[start::step] for 0 <= start, 1 <= step
PyStep(seq, start, step) ==
    LET n == IF Len(seq) > start THEN (Len(seq) - start + step - 1) \div step
             ELSE 0
    IN  [i \in 1..n |-> seq[start + (i - 1) * step + 1]]

None == <<>>       \* self._last_buffer = None (a buffer has at least 1 sample)

StimOf(buf) == [i \in 1..Len(buf) |-> buf[i].s]
DataOf(buf) == [i \in 1..Len(buf) |-> buf[i].d]

\* ------------------------------------------------------- event detection
\* mne.event._find_events with output='onset', consecutive='increasing',
\* min_samples=0, mask=0: one event (sample, code) per step of the stim
\* signal to a larger value; column i (0-based) is sample first + i, and
\* column 0 has no predecessor, so it never is an event.
RECURSIVE FindFrom(_, _, _)
FindFrom(data, first, i) ==
    IF i > Len(data) THEN <<>>
    ELSE (IF data[i] > data[i - 1]
          THEN << <<first + i - 1, data[i]>> >> ELSE <<>>)
         \o FindFrom(data, first, i + 1)

find_events(data, first) == FindFrom(data, first, 2)

\* events.sort(): tuples (sample, code) in lexicographic order
EvLess(a, b) == a[1] < b[1] \/ (a[1] = b[1] /\ a[2] < b[2])

RECURSIVE Insert(_, _)
Insert(e, s) ==
    IF s = <<>> THEN <<e>>
    ELSE IF EvLess(Head(s), e) \/ Head(s) = e THEN <<Head(s)>> \o Insert(e, Tail(s))
    ELSE <<e>> \o s

RECURSIVE SortEvents(_)
SortEvents(s) == IF s = <<>> THEN <<>> ELSE Insert(Head(s), SortEvents(Tail(s)))

\* ---------------------------------------- _process_raw_buffer, lines 383-431
\* The callback reads and writes three fields of the instance; the operators
\* below take them as a record st = [last_buffer, first_samp, event_backlog],
\* so that they can also be applied to a state the instance was in before.
Self ==
    [last_buffer |-> last_buffer, first_samp |-> first_samp,
     event_backlog |-> event_backlog]

tmax_samp == tmin_samp + n_samp

LastSamp(st, raw) == st.first_samp + Len(raw) - 1

\* the absolute sample passed to _find_events as the first column's
ScanFirst(st, raw) ==
    IF st.last_buffer # None THEN st.first_samp - Len(raw) ELSE st.first_samp

\* the stim data scanned: the tail's last columns, then the buffer
ScanData(st, raw) ==
    IF st.last_buffer # None
    THEN PyTail(StimOf(st.last_buffer), Len(raw)) \o StimOf(raw)
    ELSE StimOf(raw)

BuffEvents(st, raw) == find_events(ScanData(st, raw), ScanFirst(st, raw))

\* mutant: no detection is discarded as already processed
MinEventSampUnfiltered(st) == 0 - Inf

MinEventSamp(st) ==
    IF Len(st.event_backlog) > 0
    THEN st.event_backlog[Len(st.event_backlog)][1] + 1
    ELSE st.first_samp - min_samples

ValidEvents(st, raw) ==
    LET m == MinEventSamp(st)
        Valid(e) == e[1] >= m
    IN  SelectSeq(BuffEvents(st, raw), Valid)

\* for event_id in self.event_id.values(): events.extend(...)
RECURSIVE ExtendById(_, _, _)
ExtendById(evs, buff, ids) ==
    IF ids = {} THEN evs
    ELSE LET id == CHOOSE x \in ids : \A y \in ids : x <= y
             Same(e) == e[2] = id
         IN  ExtendById(evs \o SelectSeq(buff, Same), buff, ids \ {id})

EventsToProcess(st, raw) ==
    SortEvents(ExtendById(st.event_backlog, ValidEvents(st, raw), EventIds))

\* ---------------------------------------- _process_raw_buffer, lines 433-459
\* which branch of the loop body the event e = (sample, code) takes
Branch(st, e, raw) ==
    IF /\ e[1] + tmin_samp >= st.first_samp
       /\ e[1] + tmax_samp <= LastSamp(st, raw)
    THEN "easy"
    ELSE IF /\ e[1] + tmin_samp < st.first_samp
            /\ e[1] + tmax_samp <= LastSamp(st, raw)
    THEN "lookback"
    ELSE IF e[1] + tmax_samp > LastSamp(st, raw)
    THEN "future"
    ELSE "unhandled"

EasyEpoch(st, e, raw) ==
    PySlice(raw, e[1] + tmin_samp - st.first_samp,
                 e[1] + tmax_samp - st.first_samp)

LookbackEpoch(st, e, raw) ==
    LET n_last == st.first_samp - (e[1] + tmin_samp)
        n_this == n_samp - n_last
    IN  PyTail(st.last_buffer, n_last) \o PyHead(raw, n_this)

\* the events for which the loop body reaches _append_epoch_to_queue
HasEpoch(st, e, raw) ==
    \/ Branch(st, e, raw) = "easy"
    \/ Branch(st, e, raw) = "lookback" /\ st.last_buffer # None

EpochOf(st, e, raw) ==
    IF Branch(st, e, raw) = "easy"
    THEN EasyEpoch(st, e, raw) ELSE LookbackEpoch(st, e, raw)

\* the calls of _append_epoch_to_queue of one callback, in order; the epoch
\* keeps the picked data channel
Extracted(st, raw) ==
    LET Ready(e) == HasEpoch(st, e, raw)
        evs == SelectSeq(EventsToProcess(st, raw), Ready)
    IN  [i \in 1..Len(evs) |->
            [samp |-> evs[i][1], id |-> evs[i][2],
             epoch |-> DataOf(EpochOf(st, evs[i], raw))]]

\* the events for which the loop body takes the continue of line 446
Skipped(st, raw) ==
    LET NoTail(e) == Branch(st, e, raw) = "lookback" /\ st.last_buffer = None
    IN  SelectSeq(EventsToProcess(st, raw), NoTail)

\* the detections of this buffer that lines 426-429 add to the event list
NewDetections(st, raw) == ExtendById(<<>>, ValidEvents(st, raw), EventIds)

NewBacklog(st, raw) ==
    LET Future(e) == Branch(st, e, raw) = "future"
    IN  SelectSeq(EventsToProcess(st, raw), Future)

\* line 456: raise RuntimeError('Unhandled case..')
Unhandled(st, raw) ==
    \E i \in 1..Len(EventsToProcess(st, raw)) :
        Branch(st, EventsToProcess(st, raw)[i], raw) = "unhandled"

\* ---------------------------------------- _process_raw_buffer, lines 461-472
\* mutant: the tail never slides, every buffer is concatenated
NewLastBufferNoSlide(st, raw) ==
    IF st.last_buffer = None THEN raw ELSE st.last_buffer \o raw

NewLastBuffer(st, raw) ==
    IF st.last_buffer = None THEN raw
    ELSE IF Len(st.last_buffer) <= n_samp + Len(raw)
    THEN st.last_buffer \o raw
    ELSE PySlice(st.last_buffer, Len(raw), Len(st.last_buffer)) \o raw

NewFirstSamp(st, raw) == st.first_samp + Len(raw)

\* the three fields when the callback returns
After(st, raw) ==
    [last_buffer |-> NewLastBuffer(st, raw),
     first_samp |-> NewFirstSamp(st, raw),
     event_backlog |-> NewBacklog(st, raw)]

\* ---------------------------------------- _append_epoch_to_queue
\* line 499, self._detrend_offset_decim(epoch) with detrend=None and no
\* baseline: the epoch sliced by self._decim_slice
detrend_offset_decim(epoch) == PyStep(epoch, decim_start, decim)

\* lines 491-502: the epoch an extracted window becomes before it is judged
\* (raw keeps the window as it was cut)
Processed(x) ==
    [samp |-> x.samp, id |-> x.id, epoch |-> detrend_offset_decim(x.epoch),
     raw |-> x.epoch]

\* q holds the six fields the method writes, x is one extracted epoch; one
\* operator per statement of lines 509-516
Line509(q, x) ==
    [q EXCEPT !.epoch_queue = Append(q.epoch_queue, x.epoch),
              !.raw_queue = Append(q.raw_queue, x.raw)]
Line510(q, x) == [q EXCEPT !.events = Append(q.events, <<x.samp, 0, x.id>>)]
Line511(q) == [q EXCEPT !.drop_log = Append(q.drop_log, <<>>)]
Line512(q) == [q EXCEPT !.selection = Append(q.selection, Len(q.drop_log) - 1)]
Line513(q) == [q EXCEPT !.n_good = q.n_good + 1]
Line515(q) == [q EXCEPT !.drop_log = Append(q.drop_log, <<"reject">>)]
Line516(q) == [q EXCEPT !.n_bad = q.n_bad + 1]

AppendGood(q, x) == Line513(Line512(Line511(Line510(Line509(q, x), x))))

AppendBad(q) == Line516(Line515(q))

\* mutant: the event is recorded before the epoch is judged, so a rejected
\* epoch leaves its event behind
append_epoch_to_queue_EventKept(q, x, is_good) ==
    IF is_good THEN AppendGood(q, x) ELSE Line510(AppendBad(q), x)

\* mutant: an accepted epoch is queued without its empty drop-log entry
append_epoch_to_queue_NoDropEntry(q, x, is_good) ==
    IF is_good THEN Line513(Line512(Line510(Line509(q, x), x)))
    ELSE AppendBad(q)

\* mutant: a rejected epoch is counted but leaves no drop-log entry
append_epoch_to_queue_RejectUnlogged(q, x, is_good) ==
    IF is_good THEN AppendGood(q, x) ELSE Line516(q)

\* is_good is the answer of _is_good_epoch
append_epoch_to_queue(q, x, is_good) ==
    IF is_good THEN AppendGood(q, x) ELSE AppendBad(q)

RECURSIVE AppendAll(_, _, _, _)
AppendAll(q, xs, good, i) ==
    IF i > Len(xs) THEN q
    ELSE AppendAll(append_epoch_to_queue(q, Processed(xs[i]), good[i]),
                   xs, good, i + 1)

Queues ==
    [epoch_queue |-> epoch_queue, events |-> events, drop_log |-> drop_log,
     selection |-> selection, n_good |-> n_good, n_bad |-> n_bad,
     raw_queue |-> raw_queue]

SetQueues(q) ==
    /\ epoch_queue' = q.epoch_queue
    /\ events' = q.events
    /\ drop_log' = q.drop_log
    /\ selection' = q.selection
    /\ n_good' = q.n_good
    /\ n_bad' = q.n_bad
    /\ raw_queue' = q.raw_queue

\* ------------------------------------------------------------ the source
\* the buffers the source can deliver next: w samples of the ramp with any
\* trigger values
Buffers(maxw, cap, stims) ==
    UNION {
      { [i \in 1..w |-> [d |-> Len(stream) + i - 1, s |-> st[i]]] :
          st \in [1..w -> stims] } :
      w \in 1..Min(maxw, cap - Len(stream)) }

\* what a callback leaves for the claims to read: the state it began in and
\* the epochs it handed to _append_epoch_to_queue
CallRecord(raw) ==
    [called |-> TRUE,
     pre |-> Self,
     raw |-> raw,
     qlen |-> Len(epoch_queue),
     dlen |-> Len(drop_log),
     extracted |-> Extracted(Self, raw),
     \* counted over all callbacks so far: the detections added to the event
     \* list, and the events skipped at line 446
     detected |-> (IF cb.called THEN cb.detected ELSE 0)
                    + Len(NewDetections(Self, raw)),
     skipped |-> (IF cb.called THEN cb.skipped ELSE 0)
                    + Len(Skipped(Self, raw)),
     prev |-> IF cb.called THEN [called |-> TRUE, pre |-> cb.pre, raw |-> cb.raw]
              ELSE [called |-> FALSE]]

\* ---------------------------------------------------------------- Init
InitWith(configs, decims) ==
    /\ \E c \in configs : tmin_samp = c[1] /\ n_samp = c[2]
    /\ decim \in decims
    /\ decim_start = (0 - tmin_samp) % decim
    /\ raw_queue = <<>>
    /\ last_buffer = None
    /\ first_samp = 0
    /\ event_backlog = <<>>
    /\ epoch_queue = <<>>
    /\ events = <<>>
    /\ selection = <<>>
    /\ drop_log = <<>>
    /\ n_good = 0
    /\ n_bad = 0
    /\ started = FALSE
    /\ last_time = 0
    /\ current = 0
    /\ registered = 0
    /\ receiving = FALSE
    /\ stream = <<>>
    /\ now = 0
    /\ cb = [called |-> FALSE]
    /\ res = [kind |-> "none", epoch |-> <<>>, event_id |-> 0, call_time |-> 0,
              call_sent |-> 0]
    /\ ended = FALSE
    /\ ppc = "idle"
    /\ todo = <<>>
    /\ pend = <<>>
    /\ cpc = "idle"
    /\ loc = <<>>

Init == InitWith(Configs, {1})

InitNext == InitWith(ConfigsNext, {1})

InitDecim == InitWith(ConfigsDecim, Decims)

\* ------------------------------------------------- _process_raw_buffer
\* the client's receive thread calls the registered callback with a buffer
ProcessRawBuffer(maxw, cap, stims) ==
    /\ registered > 0
    /\ receiving
    /\ \E raw \in Buffers(maxw, cap, stims) :
         /\ ~Unhandled(Self, raw)
         /\ \E good \in [1..Len(Extracted(Self, raw)) -> BOOLEAN] :
              SetQueues(AppendAll(Queues, Extracted(Self, raw), good, 1))
         /\ event_backlog' = After(Self, raw).event_backlog
         /\ last_buffer' = After(Self, raw).last_buffer
         /\ first_samp' = After(Self, raw).first_samp
         /\ stream' = stream \o StimOf(raw)
         /\ cb' = CallRecord(raw)
    /\ UNCHANGED <<config, session, consumer, threads, now>>

\* ------------------------------------------------------------ start, stop
\* mutant: start() without its test of self._started
StartUnguarded ==
    /\ registered' = registered + 1
    /\ receiving' = TRUE
    /\ started' = TRUE
    /\ last_time' = Inf
    /\ UNCHANGED <<config, buffers, queues, current, res, ended, threads, now>>

\* mutant: start() sets the idle timer to the clock instead of np.inf
StartTimerNow ==
    /\ IF ~started
       THEN /\ registered' = registered + 1
            /\ receiving' = TRUE
            /\ started' = TRUE
            /\ last_time' = now
       ELSE UNCHANGED <<registered, receiving, started, last_time>>
    /\ UNCHANGED <<config, buffers, queues, current, res, ended, threads, now>>

Start ==
    /\ IF ~started
       THEN /\ registered' = registered + 1
            /\ receiving' = TRUE
            /\ started' = TRUE
            /\ last_time' = Inf
       ELSE UNCHANGED <<registered, receiving, started, last_time>>
    /\ UNCHANGED <<config, buffers, queues, current, res, ended, threads, now>>

Stop ==
    /\ \E stop_receive_thread \in BOOLEAN, stop_measurement \in BOOLEAN :
         /\ IF started
            THEN /\ registered' = registered - 1
                 /\ started' = FALSE
            ELSE UNCHANGED <<registered, started>>
         /\ IF stop_receive_thread \/ stop_measurement
            THEN receiving' = FALSE
            ELSE UNCHANGED receiving
    /\ UNCHANGED <<config, buffers, queues, consumer, threads, now>>

\* ------------------------------------------------------------- decimate
\* BaseEpochs.decimate(k, offset) on an instance that is not preloaded: the
\* factor accumulates in self._decim, and self._decim_slice becomes
\* slice(start_idx % self._decim + offset, None, self._decim), where
\* start_idx = -tmin_samp is the column of t = 0 in an undecimated epoch
base_decimate(k, offset) ==
    [decim |-> decim * k,
     decim_start |-> ((0 - tmin_samp) % (decim * k)) + offset]

\* lines 558-561: the base method, then every queued epoch sliced by the
\* new self._decim_slice
Decimate ==
    /\ \E k \in DecimFactors :
         /\ decim * k <= MaxDecim
         /\ \E offset \in 0..(k - 1) :
              /\ decim' = base_decimate(k, offset).decim
              /\ decim_start' = base_decimate(k, offset).decim_start
              /\ epoch_queue' =
                   [i \in 1..Len(epoch_queue) |->
                      PyStep(epoch_queue[i],
                             base_decimate(k, offset).decim_start,
                             base_decimate(k, offset).decim)]
    /\ UNCHANGED <<window, buffers, events, selection, drop_log, n_good,
                   n_bad, raw_queue, session, consumer, threads, now>>

\* ------------------------------------------------------------- __next__
\* the consumer is inside the loop of next(), between two iterations
Waiting == res.kind = "sleep"

\* the clock, and the number of samples sent, when the call of next() that is
\* under way began
CallTime == IF Waiting THEN res.call_time ELSE now

CallSent == IF Waiting THEN res.call_sent ELSE Len(stream)

Result(kind, epoch, event_id) ==
    [kind |-> kind, epoch |-> epoch, event_id |-> event_id,
     call_time |-> IF kind = "sleep" THEN CallTime ELSE 0,
     call_sent |-> IF kind = "sleep" THEN CallSent ELSE 0]

\* mutant: the idle timeout of line 339 one second late
OutcomeLateTimeout(current_time) ==
    IF Len(epoch_queue) > current THEN "return"
    ELSE IF current_time > last_time + isi_max + 1 THEN "StopIteration"
    ELSE IF started THEN "sleep"
    ELSE "RuntimeError"

\* mutant: the loop sleeps without the test of self._started of line 342
OutcomeSleepsUnstarted(current_time) ==
    IF Len(epoch_queue) > current THEN "return"
    ELSE IF current_time > last_time + isi_max THEN "StopIteration"
    ELSE "sleep"

\* the branch one iteration of the loop takes: the tests of lines 333, 339
\* and 342, in the order of the code
Outcome(current_time) ==
    IF Len(epoch_queue) > current THEN "return"
    ELSE IF current_time > last_time + isi_max THEN "StopIteration"
    ELSE IF started THEN "sleep"
    ELSE "RuntimeError"

\* lines 334-338, with the clock the iteration read at line 332
NextReturn(current_time) ==
    IF Len(events) > current
    THEN /\ res' = Result("epoch", epoch_queue[current + 1],
                          events[current + 1][3])
         /\ current' = current + 1
         /\ last_time' = current_time
         /\ UNCHANGED ended
    ELSE /\ res' = Result("IndexError", <<>>, 0)
         /\ UNCHANGED <<current, last_time, ended>>

\* lines 339-349
NextIdle(current_time) ==
    /\ res' = Result(Outcome(current_time), <<>>, 0)
    /\ ended' = (ended \/ Outcome(current_time) = "StopIteration")
    /\ UNCHANGED <<current, last_time>>

\* one iteration of the while loop of __next__: the first one of a call, or
\* the one after a sleep
NextIter ==
    /\ cpc = "idle"
    /\ IF Outcome(now) = "return" THEN NextReturn(now) ELSE NextIdle(now)
    /\ UNCHANGED <<config, buffers, queues, session, threads, now>>

\* time.time() advances
Tick ==
    /\ now < MaxTime
    /\ now' = now + 1
    /\ UNCHANGED <<config, buffers, queues, session, consumer, threads>>

\* ------------------------------------------------------ specifications
\* the producer alone: buffers of all widths, sessions started and stopped
Next == ProcessRawBuffer(MaxBuf, MaxSent, StimVals) \/ Start \/ Stop

Spec == Init /\ [][Next]_vars

\* a consumer calling next() between the callbacks, and the clock
NextSeq ==
    \/ ProcessRawBuffer(MaxBufNext, MaxSentNext, StimValsNext)
    \/ Start
    \/ Stop
    \/ NextIter
    \/ Tick

SpecNext == InitNext /\ [][NextSeq]_vars

\* decimate() called between the callbacks, on instances constructed with
\* decim 1 or 2
NextDecim ==
    \/ ProcessRawBuffer(MaxBufDecim, MaxSentDecim, StimValsNext)
    \/ Start
    \/ Stop
    \/ Decimate

SpecDecim == InitDecim /\ [][NextDecim]_vars

\* ------------------------------------------------- the two threads
\* The receive thread runs _process_raw_buffer while the user's thread runs
\* next() or get_data(): one step per statement that reads or writes the
\* queue, the events, the drop log or the selection.

\* the receive thread enters the callback: the events of the buffer are
\* found and their epochs cut (lines 386-459), one call of
\* _append_epoch_to_queue pending for each
ReceiveBuffer ==
    /\ ppc = "idle"
    /\ registered > 0
    /\ receiving
    /\ \E raw \in Buffers(MaxBufNext, MaxSentNext, StimValsNext) :
         /\ ~Unhandled(Self, raw)
         /\ \E good \in [1..Len(Extracted(Self, raw)) -> BOOLEAN] :
              todo' = [i \in 1..Len(Extracted(Self, raw)) |->
                         [x |-> Processed(Extracted(Self, raw)[i]),
                          is_good |-> good[i]]]
         /\ pend' = raw
    /\ ppc' = "loop"
    /\ UNCHANGED <<config, buffers, queues, session, consumer, cpc, loc, now>>

\* line 508: the test of is_good of the next pending call
EnterAppend ==
    /\ ppc = "loop"
    /\ todo # <<>>
    /\ ppc' = IF todo[1].is_good THEN "509" ELSE "515"
    /\ UNCHANGED <<config, buffers, queues, session, consumer, todo, pend,
                   cpc, loc, now>>

\* line 509: self._epoch_queue.append(epoch)
Append509 ==
    /\ ppc = "509"
    /\ SetQueues(Line509(Queues, todo[1].x))
    /\ ppc' = "510"
    /\ UNCHANGED todo
    /\ UNCHANGED <<config, buffers, session, consumer, pend, cpc, loc, now>>

\* line 510: self._events.append((event_samp, 0, event_id))
Append510 ==
    /\ ppc = "510"
    /\ SetQueues(Line510(Queues, todo[1].x))
    /\ ppc' = "511"
    /\ UNCHANGED todo
    /\ UNCHANGED <<config, buffers, session, consumer, pend, cpc, loc, now>>

\* line 511: self.drop_log = self.drop_log + (tuple(),)
Append511 ==
    /\ ppc = "511"
    /\ SetQueues(Line511(Queues))
    /\ ppc' = "512"
    /\ UNCHANGED todo
    /\ UNCHANGED <<config, buffers, session, consumer, pend, cpc, loc, now>>

\* line 512: self._selection.append(len(self.drop_log) - 1)
Append512 ==
    /\ ppc = "512"
    /\ SetQueues(Line512(Queues))
    /\ ppc' = "513"
    /\ UNCHANGED todo
    /\ UNCHANGED <<config, buffers, session, consumer, pend, cpc, loc, now>>

\* line 513: self._n_good += 1, and the return
Append513 ==
    /\ ppc = "513"
    /\ SetQueues(Line513(Queues))
    /\ ppc' = "loop"
    /\ todo' = Tail(todo)
    /\ UNCHANGED <<config, buffers, session, consumer, pend, cpc, loc, now>>

\* line 515: self.drop_log = self.drop_log + (tuple(offending_reasons),)
Append515 ==
    /\ ppc = "515"
    /\ SetQueues(Line515(Queues))
    /\ ppc' = "516"
    /\ UNCHANGED todo
    /\ UNCHANGED <<config, buffers, session, consumer, pend, cpc, loc, now>>

\* line 516: self._n_bad += 1, and the return
Append516 ==
    /\ ppc = "516"
    /\ SetQueues(Line516(Queues))
    /\ ppc' = "loop"
    /\ todo' = Tail(todo)
    /\ UNCHANGED <<config, buffers, session, consumer, pend, cpc, loc, now>>

\* lines 461-472: backlog, retained tail and first_samp, and the return
FinishBuffer ==
    /\ ppc = "loop"
    /\ todo = <<>>
    /\ event_backlog' = After(Self, pend).event_backlog
    /\ last_buffer' = After(Self, pend).last_buffer
    /\ first_samp' = After(Self, pend).first_samp
    /\ stream' = stream \o StimOf(pend)
    /\ cb' = CallRecord(pend)
    /\ ppc' = "idle"
    /\ pend' = <<>>
    /\ UNCHANGED <<config, queues, session, consumer, todo, cpc, loc, now>>

\* start() and stop() are calls of the user's thread
UserStart == cpc = "idle" /\ Start

UserStop == cpc = "idle" /\ Stop

\* lines 332-333, and lines 339-349 when the test of line 333 fails
NextTest ==
    /\ cpc = "idle"
    /\ IF Outcome(now) = "return"
       THEN /\ cpc' = "334"
            /\ loc' = [current_time |-> now]
            /\ UNCHANGED consumer
       ELSE /\ NextIdle(now)
            /\ UNCHANGED <<cpc, loc>>
    /\ UNCHANGED <<config, buffers, queues, session, ppc, todo, pend, now>>

\* line 334: epoch = self._epoch_queue[self._current]
Next334 ==
    /\ cpc = "334"
    /\ loc' = [current_time |-> loc.current_time,
               epoch |-> epoch_queue[current + 1]]
    /\ cpc' = "335"
    /\ UNCHANGED <<config, buffers, queues, session, consumer, ppc, todo,
                   pend, now>>

\* line 335: event_id = self._events[self._current][-1]
Next335 ==
    /\ cpc = "335"
    /\ IF Len(events) > current
       THEN /\ loc' = [current_time |-> loc.current_time,
                       epoch |-> loc.epoch,
                       event_id |-> events[current + 1][3]]
            /\ cpc' = "336"
            /\ UNCHANGED consumer
       ELSE /\ res' = Result("IndexError", <<>>, 0)
            /\ cpc' = "idle"
            /\ loc' = <<>>
            /\ UNCHANGED <<last_time, current, ended>>
    /\ UNCHANGED <<config, buffers, queues, session, ppc, todo, pend, now>>

\* lines 336-338: the cursor, the idle timer and the return
Next336 ==
    /\ cpc = "336"
    /\ current' = current + 1
    /\ last_time' = loc.current_time
    /\ res' = Result("epoch", loc.epoch, loc.event_id)
    /\ cpc' = "idle"
    /\ loc' = <<>>
    /\ UNCHANGED <<config, buffers, queues, session, ended, ppc, todo, pend,
                   now>>

\* line 365 of _get_data, item None: use_idx = arange(len(self._events))
GetData365 ==
    /\ cpc = "idle"
    /\ loc' = [n |-> Len(events)]
    /\ cpc' = "370"
    /\ UNCHANGED <<config, buffers, queues, session, consumer, ppc, todo,
                   pend, now>>

\* line 370: the rows self._epoch_queue[idx] for idx in use_idx
GetData370 ==
    /\ cpc = "370"
    /\ res' = IF loc.n <= Len(epoch_queue)
              THEN Result("data", <<>>, 0)
              ELSE Result("IndexError", <<>>, 0)
    /\ cpc' = "idle"
    /\ loc' = <<>>
    /\ UNCHANGED <<config, buffers, queues, session, last_time, current,
                   ended, ppc, todo, pend, now>>

NextConc ==
    \/ ReceiveBuffer
    \/ EnterAppend
    \/ Append509
    \/ Append510
    \/ Append511
    \/ Append512
    \/ Append513
    \/ Append515
    \/ Append516
    \/ FinishBuffer
    \/ UserStart
    \/ UserStop
    \/ NextTest
    \/ Next334
    \/ Next335
    \/ Next336
    \/ GetData365
    \/ GetData370

SpecConc == InitNext /\ [][NextConc]_vars

\* ------------------------------------------------------------ the stream
\* the trigger events of the stream delivered so far that have a configured
\* code: (absolute sample, code), in increasing order
TrueEvents ==
    LET Configured(e) == e[2] \in EventIds
    IN  SelectSeq(find_events(stream, 0), Configured)

TrueSamps == {TrueEvents[k][1] : k \in 1..Len(TrueEvents)}

\* the stream samples [e + tmin_samp, e + tmax_samp) of the data channel
Window(e) == [i \in 1..n_samp |-> e + tmin_samp + i - 1]

\* first and last absolute sample of the buffer of the last callback
BufFirst == Len(stream) - Len(cb.raw)
BufLast == Len(stream) - 1

\* the epochs the last callback extracted for the event at sample e
ExtractedFor(e) == {j \in 1..Len(cb.extracted) : cb.extracted[j].samp = e}

InBacklog(e) == \E j \in 1..Len(event_backlog) : event_backlog[j][1] = e

\* ------------------------------------------------------------------ C1
\* C1: after every completed callback the epoch queue, the events and the
\* selection have the same length, selection[i] is the index of the i-th
\* empty drop-log entry, and the entries the callback added at index i are
\* the epoch, the (sample, 0, code) and the drop-log index of one and the
\* same extracted epoch.
C1_ParallelSequences ==
    /\ Len(epoch_queue) = Len(events)
    /\ Len(events) = Len(selection)
    /\ \A i \in 1..Len(selection) :
         /\ selection[i] + 1 \in 1..Len(drop_log)
         /\ drop_log[selection[i] + 1] = <<>>
         /\ Cardinality({j \in 1..(selection[i] + 1) : drop_log[j] = <<>>}) = i
    /\ cb.called =>
         \A i \in (cb.qlen + 1)..Len(epoch_queue) :
            LET j == selection[i] + 1 - cb.dlen
            IN  /\ j \in 1..Len(cb.extracted)
                /\ epoch_queue[i] = cb.extracted[j].epoch
                /\ events[i] = <<cb.extracted[j].samp, 0, cb.extracted[j].id>>

\* a callback has accepted one epoch and rejected another
C1_Witness ==
    /\ cb.called
    /\ Len(epoch_queue) > cb.qlen
    /\ Len(drop_log) - cb.dlen > Len(epoch_queue) - cb.qlen

\* ------------------------------------------------------------------ C7
\* C7: the callback is registered exactly while the session is Active (the
\* net number of registrations is 1 when started, 0 when not); start() on an
\* Active session changes nothing; stop() on an Idle session changes nothing
\* of the instance and no registration; registrations and unregistrations
\* alternate, a registration first.
C7_SessionRegistration ==
    /\ [](started \in BOOLEAN /\ registered = IF started THEN 1 ELSE 0)
    /\ [][(Start /\ started) => UNCHANGED vars]_vars
    /\ [][(Stop /\ ~started) =>
            UNCHANGED <<config, buffers, queues, started, registered,
                        consumer, threads, now>>]_vars
    /\ [][registered' # registered =>
            /\ registered' = 1 - registered
            /\ registered' = IF started' THEN 1 ELSE 0]_vars

\* a session that has received a buffer has been stopped
C7_Witness ==
    /\ cb.called
    /\ ~started
    /\ registered = 0
    /\ ~receiving

\* ------------------------------------------------------------------ C2
\* C2: whatever the interleaving of the callback with next() and get_data(),
\* no read of the consumer fails: next(), having seen len(queue) > current,
\* finds events[current], and get_data() finds a queue entry for every index
\* below the len(events) it read.
C2_ConsumerReadsConsistent ==
    /\ res.kind # "IndexError"
    /\ cpc = "370" => loc.n <= Len(epoch_queue)

\* ------------------------------------------------------------- C3, C4, C5
\* no unread epoch at the cursor
Exhausted == Len(epoch_queue) <= current

\* a step in which an iteration of next() produced a result
NextActed == res' # res

C4_NotReceivingIsUsageError ==
    [][(NextActed /\ ~started /\ Exhausted)
         => res'.kind = "RuntimeError"]_vars

\* C4 (amended): an iteration of next() made while the session is not
\* started, no unread epoch exists and the clock has not passed
\* last_time + isi_max raises RuntimeError: it neither sleeps nor raises
\* StopIteration; once the clock has passed it, it raises StopIteration.
C4_NotReceivingWithinIsiMax ==
    /\ [](( ~started /\ Exhausted) =>
            Outcome(now) = IF now <= last_time + isi_max
                           THEN "RuntimeError" ELSE "StopIteration")
    /\ [][(NextActed /\ ~started /\ Exhausted) =>
            res'.kind = IF now <= last_time + isi_max
                        THEN "RuntimeError" ELSE "StopIteration"]_vars

C4_Witness ==
    /\ res.kind = "RuntimeError"
    /\ ~started
    /\ Exhausted
    /\ current > 0
    /\ now > isi_max
    /\ now <= last_time + isi_max

\* C5: once a call of next() has raised StopIteration (ended), no later call
\* returns an epoch.
C5_EndOfSequenceTerminal ==
    [][(ended /\ NextActed) => res'.kind # "epoch"]_vars

\* ------------------------------------------------------------------ C6
\* C6: a call of next() that found an unread epoch at the cursor (the test of
\* line 333) returns queue[current] with the code events[current][-1],
\* advances the cursor by one and sets last_time to the clock it read,
\* whatever the receive thread does meanwhile.
C6_NextReturnsUnread ==
    [][(cpc \in {"334", "335", "336"} /\ cpc' = "idle") =>
         /\ res'.kind = "epoch"
         /\ res'.epoch = epoch_queue[current + 1]
         /\ res'.event_id = events[current + 1][3]
         /\ current' = current + 1
         /\ last_time' = loc.current_time]_vars

\* ------------------------------------------------------------------ C8
\* C8: every event whose window [e+tmin_samp, e+tmax_samp) lies within the
\* buffer of the last callback has exactly one epoch extracted by that
\* callback, equal to that slice of the stream, and is not in the backlog.
\* (Stated for the windows that end before the last sample of the buffer,
\* e+tmax_samp <= last_samp, which the code's test of line 437 asks for.)
C8_WindowInBufferExtracted ==
    cb.called =>
      \A e \in TrueSamps :
        (BufFirst <= e + tmin_samp /\ e + tmax_samp <= BufLast) =>
          /\ Cardinality(ExtractedFor(e)) = 1
          /\ \A j \in ExtractedFor(e) : cb.extracted[j].epoch = Window(e)
          /\ ~InBacklog(e)

\* ------------------------------------------------------------------ C9
\* C9: every event whose window starts before the first sample of the buffer
\* of the last callback and ends within it: when the callback found a
\* retained tail (and the window starts within the stream), exactly one
\* epoch was extracted, holding the stream samples [e+tmin_samp,
\* e+tmax_samp); when there was no tail, none was extracted and the event is
\* not pending either.
C9_Lookback ==
    cb.called =>
      \A e \in TrueSamps :
        (/\ e + tmin_samp < BufFirst
         /\ BufFirst <= e + tmax_samp - 1
         /\ e + tmax_samp <= BufLast) =>
          IF cb.pre.last_buffer # None
          THEN e + tmin_samp >= 0 =>
                 /\ Cardinality(ExtractedFor(e)) = 1
                 /\ \A j \in ExtractedFor(e) : cb.extracted[j].epoch = Window(e)
          ELSE ExtractedFor(e) = {} /\ ~InBacklog(e)

\* ----------------------------------------------------------------- C10
\* the buffer of the callback before the last one
PrevFirst == Len(stream) - Len(cb.raw) - Len(cb.prev.raw)
PrevLast == BufFirst - 1

\* what the callback before the last one handed to the acceptor, and what a
\* single callback would have, had it been given the last two buffers as one
EarlierExtracted == Extracted(cb.prev.pre, cb.prev.raw)
CombinedExtracted == Extracted(cb.prev.pre, cb.prev.raw \o cb.raw)

\* C10: every event of the buffer before the last one whose window extends
\* past that buffer and ends within the last one was put in the backlog with
\* no epoch, and the last callback extracted exactly one epoch for it, the
\* same epoch that one callback with the two buffers combined extracts.
C10_LookaheadCompleted ==
    (cb.called /\ cb.prev.called) =>
      \A e \in TrueSamps :
        (/\ PrevFirst <= e
         /\ e <= PrevLast
         /\ e + tmax_samp - 1 > PrevLast
         /\ e + tmax_samp <= BufLast) =>
          /\ \E j \in 1..Len(cb.pre.event_backlog) :
                cb.pre.event_backlog[j][1] = e
          /\ \A j \in 1..Len(EarlierExtracted) : EarlierExtracted[j].samp # e
          /\ Cardinality(ExtractedFor(e)) = 1
          /\ \A j \in ExtractedFor(e) :
               \E k \in 1..Len(CombinedExtracted) :
                  /\ CombinedExtracted[k].samp = e
                  /\ CombinedExtracted[k].epoch = cb.extracted[j].epoch

\* ----------------------------------------------------------------- C11
\* the (sample, code, epoch) of the calls of _append_epoch_to_queue
EpochSet(xs) == {<<xs[i].samp, xs[i].id, xs[i].epoch>> : i \in 1..Len(xs)}

\* the last two callbacks are the first two of the instance
FirstTwo ==
    /\ cb.called
    /\ cb.prev.called
    /\ cb.prev.pre.last_buffer = None

\* the boundary between the last two buffers splits a trigger step
BoundarySplitsStep ==
    cb.raw[1].s > cb.prev.raw[Len(cb.prev.raw)].s

\* C11: a stream cut in two buffers B1, B2 (no trigger step split by the
\* boundary) and ingested one buffer at a time hands the same epochs (same
\* events, same samples) to the acceptor as the one buffer B1+B2 does.
C11_ChunkingInvariance ==
    (FirstTwo /\ ~BoundarySplitsStep) =>
        EpochSet(EarlierExtracted) \cup EpochSet(cb.extracted)
          = EpochSet(CombinedExtracted)

\* ----------------------------------------------------------------- C12
\* the number of empty entries of a drop log
NumEmpty(log) == Cardinality({j \in 1..Len(log) : log[j] = <<>>})

\* C12: after any sequence of callbacks the drop log is at least as long as
\* the queue and has as many empty entries as the queue has epochs; the last
\* callback added one drop-log entry per epoch it handed to the acceptor, an
\* empty one and one queue entry for each accepted epoch, a non-empty one and
\* no queue entry for each rejected one.
C12_DropLogCountsQueue ==
    /\ Len(drop_log) >= Len(epoch_queue)
    /\ NumEmpty(drop_log) = Len(epoch_queue)
    /\ n_good = Len(epoch_queue)
    /\ n_bad = Len(drop_log) - Len(epoch_queue)
    /\ cb.called =>
         /\ Len(drop_log) - cb.dlen = Len(cb.extracted)
         /\ Len(epoch_queue) - cb.qlen
              = NumEmpty(SubSeq(drop_log, cb.dlen + 1, Len(drop_log)))

\* the queue holds an accepted epoch and the last callback had one rejected
C12_Witness ==
    /\ cb.called
    /\ cb.qlen > 0
    /\ Len(epoch_queue) = cb.qlen
    /\ Len(drop_log) > cb.dlen
    /\ drop_log[Len(drop_log)] # <<>>

\* ----------------------------------------------------------------- C13
\* C13: whatever calls of decimate() were made, every queued epoch is the
\* window it was cut as, sliced once by the current self._decim_slice: the
\* same as one decimate() by the total factor gives, and the same (width
\* included) as an epoch accepted after the calls.
C13_DecimateRetroactive ==
    /\ Len(raw_queue) = Len(epoch_queue)
    /\ \A i \in 1..Len(epoch_queue) :
         epoch_queue[i] = PyStep(raw_queue[i], decim_start, decim)

C15_CommittedAtMostOnce ==
    Len(drop_log) + Len(event_backlog) <= Len(TrueEvents)

\* ----------------------------------------------------------------- C16
\* the absolute sample of the first column the last callback scanned
TrueScanFirst == BufFirst - (Len(ScanData(cb.pre, cb.raw)) - Len(cb.raw))

\* C16: in every callback the sample passed to the detector as that of the
\* first scanned column is the absolute sample of that column, and every
\* event the detector reports is a trigger step of the stream at the sample
\* reported.
C16_ScanOffsetAbsolute ==
    cb.called =>
      /\ ScanFirst(cb.pre, cb.raw) = TrueScanFirst
      /\ \A i \in 1..Len(BuffEvents(cb.pre, cb.raw)) :
           \E k \in 1..Len(find_events(stream, 0)) :
              find_events(stream, 0)[k] = BuffEvents(cb.pre, cb.raw)[i]

\* ----------------------------------------------------------------- C17
\* the absolute sample of the first column of the retained tail
TailFirst == first_samp - Len(last_buffer)

\* C17: after every callback the window of every backlog entry starts at or
\* after the earliest sample kept in the retained tail.
C17_BacklogWithinTail ==
    \A j \in 1..Len(event_backlog) :
        event_backlog[j][1] + tmin_samp >= TailFirst

\* ----------------------------------------------------------------- C18
\* C18: every epoch the last callback handed to the acceptor has n_samp
\* samples and is the stream samples [e + tmin_samp, e + tmax_samp) of its
\* event sample e.
C18_EpochExactWindow ==
    cb.called =>
      \A j \in 1..Len(cb.extracted) :
         /\ Len(cb.extracted[j].epoch) = n_samp
         /\ cb.extracted[j].epoch = Window(cb.extracted[j].samp)

\* ----------------------------------------------------------------- C19
\* C19: after every callback first_samp is the number of samples delivered
\* and the retained tail is the stream samples first_samp - width ..
\* first_samp - 1 in order; a callback that finds a tail of width at most
\* n_samp + the buffer's width appends the buffer to it, one that finds a
\* wider tail keeps its width (it slides by the buffer's width).
C19_TailRecentContiguous ==
    /\ [](/\ first_samp = Len(stream)
          /\ cb.called <=> last_buffer # None
          /\ \A i \in 1..Len(last_buffer) :
               last_buffer[i] = [d |-> TailFirst + i - 1,
                                 s |-> stream[TailFirst + i]])
    /\ [][last_buffer' # last_buffer =>
            Len(last_buffer') =
              IF last_buffer = None THEN Len(cb'.raw)
              ELSE IF Len(last_buffer) <= n_samp + Len(cb'.raw)
              THEN Len(last_buffer) + Len(cb'.raw)
              ELSE Len(last_buffer)]_vars

\* the last callback found a tail wider than n_samp + the buffer: it slid
C19_Witness ==
    /\ cb.called
    /\ cb.pre.last_buffer # None
    /\ Len(cb.pre.last_buffer) > n_samp + Len(cb.raw)
    /\ Len(last_buffer) = Len(cb.pre.last_buffer)

\* ----------------------------------------------------------------- C20
\* strictly increasing in the sample (the first element)
Increasing(evs) ==
    \A i, j \in 1..Len(evs) : i < j => evs[i][1] < evs[j][1]

\* C20: after every callback the event samples of the events sequence are
\* strictly increasing and all below those of the backlog; the events the
\* last callback processed (backlog entries and new detections, sorted) were
\* in strictly increasing sample order, every backlog entry before every new
\* detection.
C20_EventsIncreasing ==
    /\ Increasing(events)
    /\ Increasing(event_backlog)
    /\ \A i \in 1..Len(events), j \in 1..Len(event_backlog) :
         events[i][1] < event_backlog[j][1]
    /\ cb.called =>
         /\ Increasing(EventsToProcess(cb.pre, cb.raw))
         /\ \A i \in 1..Len(cb.pre.event_backlog),
               j \in 1..Len(ValidEvents(cb.pre, cb.raw)) :
              cb.pre.event_backlog[i][1] < ValidEvents(cb.pre, cb.raw)[j][1]

\* the last callback queued the epoch of a backlog entry behind an earlier
\* epoch, and detected a new event as well
C20_Witness ==
    /\ cb.called
    /\ cb.qlen > 0
    /\ Len(events) > cb.qlen
    /\ cb.pre.event_backlog # <<>>
    /\ events[cb.qlen + 1][1] = cb.pre.event_backlog[1][1]
    /\ ValidEvents(cb.pre, cb.raw) # <<>>

C22_TailAndBacklogPerSession ==
    [][/\ (last_buffer' # last_buffer \/ event_backlog' # event_backlog)
            => (started /\ registered > 0 /\ cb' # cb)
       /\ (Start /\ ~started)
            => (last_buffer' = None /\ event_backlog' = <<>>)]_vars

====
